---- MODULE Spec2Model ----
(***************************************************************************)
(* Model of the GraphQL resolvers of src/graphql/types/Mutation/createPost  *)
(* (createPost, recaptcha) and of Post.attachmentURL.                       *)
(*                                                                          *)
(* Every resolver is an async function: it runs to its next await and      *)
(* then gives the event loop to whatever else is in flight.  A step of the  *)
(* model is one such run.  createPost calls are in flight together on one   *)
(* database and one bucket (Spec): the authentication check, the awaited    *)
(* parse, the awaited lookups, and then the awaits of the transaction: the  *)
(* post insert, one putObject per validated image, the attachment insert    *)
(* and the commit.  The database is the committed state; the rows a call    *)
(* wrote through its transaction handle sit in its tx until the wrapper     *)
(* commits them or drops them on a throw.  recaptcha and Post.attachmentURL *)
(* share no state with createPost and run next to each other in             *)
(* SpecResolvers: the awaited fetch, the awaited body, and attachmentURL at *)
(* any moment in between.                                                   *)
(***************************************************************************)
EXTENDS Integers, Sequences, FiniteSets, TLC

\* ------------------------------------------------------------------ bounds
\* length of an images / attachments collection
MaxImages == 2

\* ------------------------------------------------------- generated identifiers
Digit == <<"0", "1", "2", "3", "4", "5", "6", "7", "8", "9">>

RECURSIVE NatStr(_)
NatStr(n) == IF n < 10 THEN Digit[n + 1] ELSE NatStr(n \div 10) \o Digit[(n % 10) + 1]

\* ulid(): the n-th identifier handed out; never empty, never repeated
ulid(n) == "01J" \o NatStr(n)

\* uuidv7(): the n-th identifier handed out
uuidv7(n) == "0190-" \o NatStr(n)

\* ------------------------------------------------------------------ MIME types
\* a MIME type is type "/" subtype
Mime(t, s) == [type |-> t, subtype |-> s]

MimeStr(m) == m.type \o "/" \o m.subtype

\* imageMimeTypeEnum: the MIME types allowed for an uploaded image
imageMimeTypeEnum ==
    { Mime("image", "avif"), Mime("image", "jpeg"),
      Mime("image", "png"), Mime("image", "webp") }

\* MIME types a client declares for an upload
RawMimeTypes == { Mime("image", "png"), Mime("application", "pdf") }

\* String.prototype.startsWith("image/") on a MIME type
StartsWithImage(m) == m.type = "image"

\* ------------------------------------------------------------------ requests
\* the id of the authenticated client (ctx.currentClient.user.id)
CurrentUserId == "user-123"

\* an upload of the images argument
FileUploads == { [mimetype |-> m, filename |-> "upload." \o m.subtype] : m \in RawMimeTypes }

\* an element of the images argument: a promise that resolves to an upload
\* or to null, or that rejects
ImagePromises ==
    { [settles |-> "upload", mimetype |-> u.mimetype, filename |-> u.filename] :
        u \in FileUploads }
    \cup { [settles |-> s, mimetype |-> Mime("", ""), filename |-> ""] :
             s \in { "null", "rejects" } }

RECURSIVE SeqsUpTo(_, _)
SeqsUpTo(S, n) ==
    IF n = 0 THEN { <<>> }
    ELSE LET shorter == SeqsUpTo(S, n - 1)
         IN shorter \cup { Append(s, x) : s \in { t \in shorter : Len(t) = n - 1 }, x \in S }

\* the images argument: left out, null, or a list of promises of uploads, at
\* most one of them resolving to null or rejecting
ImagesArgs ==
    { [kind |-> "undefined", items |-> <<>>], [kind |-> "null", items |-> <<>>] }
    \cup { [kind |-> "list", items |-> s] :
             s \in { t \in SeqsUpTo(ImagePromises, MaxImages) :
                       \A j, k \in 1..Len(t) :
                           (t[j].settles # "upload" /\ t[k].settles # "upload") => j = k } }

\* an images argument left out, or of one upload
ShortImagesArgs ==
    { im \in ImagesArgs :
        \/ im.kind = "undefined"
        \/ im.kind = "list" /\ Len(im.items) = 1 /\ im.items[1].settles = "upload" }

\* the input argument of createPost: every images argument with the other
\* fields in order and isPinned left out, and every value of the other
\* fields with a short images argument
CreatePostInputs ==
    { [caption |-> "hello", organizationId |-> "org-1", isPinned |-> "undefined",
       images |-> im] : im \in ImagesArgs }
    \cup
    { [caption |-> f.caption, organizationId |-> f.organizationId,
       isPinned |-> p, images |-> im] :
        f \in { [caption |-> "hello", organizationId |-> "org-1"],
                [caption |-> "", organizationId |-> "undefined"] },
        p \in { "undefined", "true", "false" },
        im \in ShortImagesArgs }

\* the createPost calls in flight together
Calls == { "A", "B" }

\* what the users, organizations and memberships tables hold for the
\* authenticated user and the organization of the input; a membership row
\* needs its user and its organization
Worlds ==
    { w \in [ currentUser : { "undefined", "regular", "administrator" },
              existingOrganization : { "undefined", "found" },
              membership : { "undefined", "regular", "administrator" } ] :
        w.membership # "undefined" =>
            w.currentUser # "undefined" /\ w.existingOrganization = "found" }

\* ------------------------------------------------------------------ errors
\* new TalawaGraphQLError({ extensions: { code, issues } })
TalawaGraphQLError(code, issues) == [code |-> code, issues |-> issues]

\* ------------------------------------------------------- argument validation
\* mutationCreatePostInputSchema: caption is at least one character long and
\* organizationId is required; every violated field is reported
mutationCreatePostInputSchema(input) ==
    (IF input.caption = ""
     THEN << [path |-> <<"input", "caption">>,
              message |-> "String must contain at least 1 character(s)"] >>
     ELSE <<>>)
    \o
    (IF input.organizationId = "undefined"
     THEN << [path |-> <<"input", "organizationId">>, message |-> "Required"] >>
     ELSE <<>>)

\* the loop of the transform leaving at the first disallowed image
RECURSIVE ImageIssuesFirstOnly(_, _)
ImageIssuesFirstOnly(rawImages, from) ==
    IF from > Len(rawImages) THEN <<>>
    ELSE IF rawImages[from].settles # "null"
            /\ rawImages[from].mimetype \notin imageMimeTypeEnum
         THEN << [path |-> <<"input", "images", from - 1>>,
                  message |-> "Mime type " \o MimeStr(rawImages[from].mimetype)
                              \o " not allowed for image upload."] >>
         ELSE ImageIssuesFirstOnly(rawImages, from + 1)

\* the loop of the transform over rawImages[i], i = from-1 .. length-1:
\* one issue, with path ["images", i] under "input", for every image that
\* is not null and whose MIME type imageMimeTypeEnum rejects
RECURSIVE ImageIssues(_, _)
ImageIssues(rawImages, from) ==
    IF from > Len(rawImages) THEN <<>>
    ELSE (IF rawImages[from].settles # "null"
             /\ rawImages[from].mimetype \notin imageMimeTypeEnum
          THEN << [path |-> <<"input", "images", from - 1>>,
                   message |-> "Mime type " \o MimeStr(rawImages[from].mimetype)
                               \o " not allowed for image upload."] >>
          ELSE <<>>)
         \o ImageIssues(rawImages, from + 1)

\* validatedImages: the images that are not null and whose MIME type is
\* allowed, in their order
ValidatedImages(rawImages) ==
    SelectSeq(rawImages, LAMBDA image : image.settles # "null"
                                        /\ image.mimetype \in imageMimeTypeEnum)

\* Promise.all(arg.images) rejects when an element rejects
PromiseAllRejects(images) ==
    images.kind = "list" /\ \E k \in 1..Len(images.items) : images.items[k].settles = "rejects"

\* the transform of the input schema: images stays undefined or null, or
\* becomes the validated images; the disallowed ones are issues
Transform(arg) ==
    IF arg.images.kind = "list"
    THEN [ value |-> [arg EXCEPT !.images.items = ValidatedImages(arg.images.items)],
           issues |-> ImageIssues(arg.images.items, 1) ]
    ELSE [ value |-> arg, issues |-> <<>> ]

\* mutationCreatePostArgumentsSchema.safeParseAsync(args), accepting the
\* validated images although issues were added
safeParseAsyncLenient(args) ==
    LET base == mutationCreatePostInputSchema(args.input)
        t == Transform(args.input)
    IN IF base # <<>>
       THEN [rejects |-> FALSE, success |-> FALSE, issues |-> base, data |-> args]
       ELSE IF PromiseAllRejects(args.input.images)
            THEN [rejects |-> TRUE, success |-> FALSE, issues |-> <<>>, data |-> args]
            ELSE [rejects |-> FALSE, success |-> TRUE, issues |-> <<>>,
                  data |-> [input |-> t.value]]

\* mutationCreatePostArgumentsSchema.safeParseAsync(args): the transform runs
\* on an input the input schema accepts; it rejects, and the parse with it,
\* when an element of images rejects; any issue makes the parse fail
safeParseAsync(args) ==
    LET base == mutationCreatePostInputSchema(args.input)
        t == Transform(args.input)
    IN IF base # <<>>
       THEN [rejects |-> FALSE, success |-> FALSE, issues |-> base, data |-> args]
       ELSE IF PromiseAllRejects(args.input.images)
            THEN [rejects |-> TRUE, success |-> FALSE, issues |-> <<>>, data |-> args]
            ELSE IF t.issues # <<>>
                 THEN [rejects |-> FALSE, success |-> FALSE, issues |-> t.issues, data |-> args]
                 ELSE [rejects |-> FALSE, success |-> TRUE, issues |-> <<>>,
                       data |-> [input |-> t.value]]

\* error.issues.map(issue => ({ argumentPath: issue.path, message: issue.message }))
MapIssues(issues) ==
    [ i \in 1..Len(issues) |->
        [argumentPath |-> issues[i].path, message |-> issues[i].message] ]

\* ------------------------------------------------------------ authorization
\* getKeyPathsWithNonUndefinedValues({ keyPaths: [["input","isPinned"]], object })
getKeyPathsWithNonUndefinedValues(parsedArgs) ==
    IF parsedArgs.input.isPinned # "undefined" THEN << <<"input", "isPinned">> >> ELSE <<>>

NoError == TalawaGraphQLError("none", <<>>)

\* the role checks with the field-level check made before the membership check
AuthorizeFieldFirst(w, parsedArgs) ==
    IF w.currentUser # "administrator"
    THEN IF w.membership # "administrator"
            /\ getKeyPathsWithNonUndefinedValues(parsedArgs) # <<>>
         THEN TalawaGraphQLError("unauthorized_arguments",
                  [ i \in 1..Len(getKeyPathsWithNonUndefinedValues(parsedArgs)) |->
                      [argumentPath |-> getKeyPathsWithNonUndefinedValues(parsedArgs)[i]] ])
         ELSE IF w.membership = "undefined"
              THEN TalawaGraphQLError("unauthorized_action_on_arguments_associated_resources",
                       << [argumentPath |-> <<"input", "organizationId">>] >>)
              ELSE NoError
    ELSE NoError

\* the role checks made for every caller, whatever its global role
AuthorizeNoGlobalOverride(w, parsedArgs) ==
    IF w.membership = "undefined"
    THEN TalawaGraphQLError("unauthorized_action_on_arguments_associated_resources",
             << [argumentPath |-> <<"input", "organizationId">>] >>)
    ELSE IF w.membership # "administrator"
            /\ getKeyPathsWithNonUndefinedValues(parsedArgs) # <<>>
         THEN TalawaGraphQLError("unauthorized_arguments",
                  [ i \in 1..Len(getKeyPathsWithNonUndefinedValues(parsedArgs)) |->
                      [argumentPath |-> getKeyPathsWithNonUndefinedValues(parsedArgs)[i]] ])
         ELSE NoError

\* the role checks of createPost: a global administrator passes; anyone else
\* needs a membership, and a membership that is not administrator may not set
\* isPinned
Authorize(w, parsedArgs) ==
    IF w.currentUser # "administrator"
    THEN IF w.membership = "undefined"
         THEN TalawaGraphQLError("unauthorized_action_on_arguments_associated_resources",
                  << [argumentPath |-> <<"input", "organizationId">>] >>)
         ELSE IF w.membership # "administrator"
                 /\ getKeyPathsWithNonUndefinedValues(parsedArgs) # <<>>
              THEN TalawaGraphQLError("unauthorized_arguments",
                       [ i \in 1..Len(getKeyPathsWithNonUndefinedValues(parsedArgs)) |->
                           [argumentPath |-> getKeyPathsWithNonUndefinedValues(parsedArgs)[i]] ])
              ELSE NoError
    ELSE NoError

\* the authentication check left out
AuthenticationCheckSkipped(client) == NoError

\* if (!ctx.currentClient.isAuthenticated) throw unauthenticated
AuthenticationCheck(client) ==
    IF ~client.isAuthenticated
    THEN TalawaGraphQLError("unauthenticated", <<>>)
    ELSE NoError

\* the checks made on what the two lookups answered: the account, the
\* organization, then the roles; NoError when the call passes them all
ChecksAfterLookups(w, parsedArgs) ==
    IF w.currentUser = "undefined"
    THEN TalawaGraphQLError("unauthenticated", <<>>)
    ELSE IF w.existingOrganization = "undefined"
         THEN TalawaGraphQLError("arguments_associated_resources_not_found",
                  << [argumentPath |-> <<"input", "organizationId">>] >>)
         ELSE Authorize(w, parsedArgs)

\* ------------------------------------------------------------------ state
VARIABLES
    world,       \* what the tables hold for the caller and the organization
    pc,          \* pc[c]: the await call c stands at
    req,         \* req[c]: the client and the arguments of call c
    result,      \* result[c]: what call c returned or threw
    frame,       \* frame[c]: the locals of the resolver of call c
    tx,          \* tx[c]: rows call c wrote through its transaction, not yet committed
    wrote,       \* wrote[c]: call c changed the database or the bucket
    log,         \* what the createPost calls logged
    db,          \* the committed posts and post attachments
    objects,     \* the object names held by the object storage bucket
    nextUlid,    \* ulid() calls made so far
    nextUuid,    \* uuidv7() calls made so far
    recaptcha,   \* the recaptcha call: where it stands, its data, answer and log
    attachment   \* the last attachmentURL resolved: its parent and its answer

createPostVars == << world, pc, req, result, frame, tx, wrote, log, db, objects, nextUlid, nextUuid >>

resolverVars == << recaptcha, attachment >>

vars == << world, pc, req, result, frame, tx, wrote, log, db, objects, nextUlid, nextUuid,
           recaptcha, attachment >>

NoReq == [op |-> "none"]
NoData == [kind |-> "none"]
NoResult == [code |-> "none", issues |-> <<>>, data |-> NoData]
NoPost == [id |-> "none"]
EmptyTx == [posts |-> {}, attachments |-> <<>>]
EmptyDb == [posts |-> {}, attachments |-> <<>>]
NoFrame ==
    [ parsedArgs |-> [input |-> [kind |-> "none"]], createdPost |-> NoPost,
      imageAttachments |-> <<>>, allAttachments |-> <<>>, i |-> 1,
      objectName |-> "", lookups |-> "pending" ]
NoRecaptcha ==
    [ pc |-> "idle", data |-> [recaptchaToken |-> ""], secretKey |-> "",
      service |-> "none", result |-> NoResult, log |-> <<>> ]
NoAttachment == [req |-> NoReq, data |-> NoData]

\* a thrown error as the caller receives it
Thrown(e) == [code |-> e.code, issues |-> e.issues, data |-> NoData]

Init ==
    /\ world \in Worlds
    /\ pc = [c \in Calls |-> "idle"]
    /\ req = [c \in Calls |-> NoReq]
    /\ result = [c \in Calls |-> NoResult]
    /\ frame = [c \in Calls |-> NoFrame]
    /\ tx = [c \in Calls |-> EmptyTx]
    /\ wrote = [c \in Calls |-> FALSE]
    /\ log = <<>>
    /\ db = EmptyDb
    /\ objects = {}
    /\ nextUlid = 0
    /\ nextUuid = 0
    /\ recaptcha = NoRecaptcha
    /\ attachment = NoAttachment

\* ------------------------------------------------------------ the transaction
\* tx.insert(postsTable).values(...): the row is part of the transaction
TxInsertPost(s, row) == [s EXCEPT !.tx.posts = @ \cup {row}]

\* tx.insert(postAttachmentsTable).values(imageAttachments)
TxInsertAttachments(s, rows) == [s EXCEPT !.tx.attachments = @ \o rows]

\* the transaction callback returned: its rows are committed
Commit(s) ==
    [ db |-> [posts |-> s.db.posts \cup s.tx.posts,
              attachments |-> s.db.attachments \o s.tx.attachments],
      tx |-> EmptyTx ]

\* the transaction callback threw: its rows are dropped
Rollback(s) == [db |-> s.db, tx |-> EmptyTx]

\* the values of the post insert
PostValues(id, input) ==
    [ id |-> id,
      creatorId |-> CurrentUserId,
      caption |-> input.caption,
      pinnedAt |-> IF input.isPinned = "undefined" \/ input.isPinned = "false"
                   THEN "null" ELSE "now",
      organizationId |-> input.organizationId ]

\* the attachment record stored under the upload's file name
imageAttachmentNamedByFile(image, objectName, id, postId, fileHash) ==
    [ creatorId |-> CurrentUserId,
      mimeType |-> image.mimetype,
      id |-> id,
      name |-> image.filename,
      postId |-> postId,
      objectName |-> image.filename,
      fileHash |-> fileHash ]

\* the attachment record of an uploaded image: name is the object name the
\* image was put under, objectName is the upload's file name
imageAttachment(image, objectName, id, postId, fileHash) ==
    [ creatorId |-> CurrentUserId,
      mimeType |-> image.mimetype,
      id |-> id,
      name |-> IF objectName # "" THEN objectName ELSE "uploaded-image",
      postId |-> postId,
      objectName |-> image.filename,
      fileHash |-> fileHash ]

\* ------------------------------------------------------------------ createPost
\* call c ends with an error; the transaction wrapper, if open, rolls back
Throw(c, e) ==
    /\ result' = [result EXCEPT ![c] = Thrown(e)]
    /\ pc' = [pc EXCEPT ![c] = "done"]
    /\ db' = Rollback([db |-> db, tx |-> tx[c]]).db
    /\ tx' = [tx EXCEPT ![c] = Rollback([db |-> db, tx |-> tx[c]]).tx]

\* the resolver is called: the authentication check, then safeParseAsync is
\* awaited
CreatePostCall(c) ==
    /\ pc[c] = "idle"
    /\ \E isAuthenticated \in BOOLEAN, input \in CreatePostInputs :
          LET client == [isAuthenticated |-> isAuthenticated]
              e == AuthenticationCheck(client)
          IN /\ req' = [req EXCEPT ![c] = [op |-> "createPost", client |-> client,
                                           args |-> [input |-> input]]]
             /\ IF e # NoError
                THEN Throw(c, e)
                ELSE /\ pc' = [pc EXCEPT ![c] = "safeParse"]
                     /\ UNCHANGED << result, db, tx >>
    /\ UNCHANGED << world, frame, wrote, log, objects, nextUlid, nextUuid, resolverVars >>

\* safeParseAsync answers: it rejects with the error of an upload, or
\* invalid_arguments is thrown, or the two lookups are started and awaited
\* together
Parsed(c) ==
    /\ pc[c] = "safeParse"
    /\ LET p == safeParseAsync(req[c].args)
       IN IF p.rejects
          THEN /\ Throw(c, [code |-> "upload_error", issues |-> <<>>])
               /\ UNCHANGED frame
          ELSE IF ~p.success
          THEN /\ Throw(c, TalawaGraphQLError("invalid_arguments", MapIssues(p.issues)))
               /\ UNCHANGED frame
          ELSE /\ frame' = [frame EXCEPT ![c].parsedArgs = p.data]
               /\ pc' = [pc EXCEPT ![c] = "lookups"]
               /\ UNCHANGED << result, db, tx >>
    /\ UNCHANGED << world, req, wrote, log, objects, nextUlid, nextUuid, resolverVars >>

\* Promise.all of the two lookups answers with what the tables hold, or one
\* of them rejects; on the answer the checks run and the transaction opens
\* with the post insert awaited
LookupsAnswered(c) ==
    /\ pc[c] = "lookups"
    /\ \E answered \in BOOLEAN :
          /\ frame' = [frame EXCEPT ![c].lookups = IF answered THEN "answered" ELSE "rejected"]
          /\ IF ~answered
             THEN Throw(c, [code |-> "database_error", issues |-> <<>>])
             ELSE LET e == ChecksAfterLookups(world, frame[c].parsedArgs)
                  IN IF e # NoError
                     THEN Throw(c, e)
                     ELSE /\ pc' = [pc EXCEPT ![c] = "insertPost"]
                          /\ UNCHANGED << result, db, tx >>
    /\ UNCHANGED << world, req, wrote, log, objects, nextUlid, nextUuid, resolverVars >>

\* tx.insert(postsTable)...returning(): a row, no row, or a database error;
\* with a row and images to upload, the first object name is drawn and the
\* upload is awaited
InsertPost(c) ==
    /\ pc[c] = "insertPost"
    /\ LET input == frame[c].parsedArgs.input
           row == PostValues(uuidv7(nextUuid), input)
           uploads == input.images.kind = "list" /\ Len(input.images.items) > 0
       IN \/ /\ LET t == TxInsertPost([db |-> db, tx |-> tx[c]], row)
                IN /\ db' = t.db
                   /\ tx' = [tx EXCEPT ![c] = t.tx]
             /\ nextUuid' = nextUuid + 1
             /\ frame' = [frame EXCEPT ![c].createdPost = row,
                                       ![c].objectName = IF uploads THEN ulid(nextUlid) ELSE @]
             /\ nextUlid' = IF uploads THEN nextUlid + 1 ELSE nextUlid
             /\ pc' = [pc EXCEPT ![c] = IF uploads THEN "putObject" ELSE "commit"]
             /\ UNCHANGED << result, log >>
          \/ /\ log' = Append(log, [sink |-> "ctx.log.error",
                    message |-> "Postgres insert operation unexpectedly returned an empty array instead of throwing an error."])
             /\ Throw(c, TalawaGraphQLError("unexpected", <<>>))
             /\ UNCHANGED << frame, nextUuid, nextUlid >>
          \/ /\ Throw(c, [code |-> "database_error", issues |-> <<>>])
             /\ UNCHANGED << frame, nextUuid, nextUlid, log >>
    /\ wrote' = [wrote EXCEPT ![c] = @ \/ db' # db]
    /\ UNCHANGED << world, req, objects, resolverVars >>

\* one turn of the loop over parsedArgs.input.images: the awaited upload
\* answers, the attachment record is built, and with another image left the
\* next object name is drawn and its upload awaited
PutObject(c) ==
    /\ pc[c] = "putObject"
    /\ LET images == frame[c].parsedArgs.input.images.items
           image == images[frame[c].i]
           objectName == frame[c].objectName
           last == frame[c].i = Len(images)
       IN \/ /\ objects' = objects \cup {objectName}
             /\ frame' = [frame EXCEPT
                   ![c].imageAttachments =
                       Append(@, imageAttachment(image, objectName, uuidv7(nextUuid),
                                                 frame[c].createdPost.id, ulid(nextUlid))),
                   ![c].i = @ + 1,
                   ![c].objectName = IF last THEN @ ELSE ulid(nextUlid + 1)]
             /\ nextUlid' = IF last THEN nextUlid + 1 ELSE nextUlid + 2
             /\ nextUuid' = nextUuid + 1
             /\ pc' = [pc EXCEPT ![c] = IF last THEN "insertAttachments" ELSE "putObject"]
             /\ UNCHANGED << result, db, tx >>
          \/ /\ Throw(c, [code |-> "object_storage_error", issues |-> <<>>])
             /\ UNCHANGED << objects, frame, nextUlid, nextUuid >>
    /\ wrote' = [wrote EXCEPT ![c] = @ \/ db' # db \/ objects' # objects]
    /\ UNCHANGED << world, req, log, resolverVars >>

\* tx.insert(postAttachmentsTable).values(imageAttachments).returning()
\* answers the rows it inserted, or no row, or a database error; what it
\* answers is pushed to allAttachments, and the callback returns
InsertAttachments(c) ==
    /\ pc[c] = "insertAttachments"
    /\ \/ \E createdImageAttachments \in { frame[c].imageAttachments, <<>> } :
             /\ LET t == TxInsertAttachments([db |-> db, tx |-> tx[c]], createdImageAttachments)
                IN /\ db' = t.db
                   /\ tx' = [tx EXCEPT ![c] = t.tx]
             /\ frame' = [frame EXCEPT ![c].allAttachments = @ \o createdImageAttachments]
             /\ pc' = [pc EXCEPT ![c] = "commit"]
             /\ UNCHANGED result
       \/ /\ Throw(c, [code |-> "database_error", issues |-> <<>>])
          /\ UNCHANGED frame
    /\ wrote' = [wrote EXCEPT ![c] = @ \/ db' # db]
    /\ UNCHANGED << world, req, log, objects, nextUlid, nextUuid, resolverVars >>

\* the callback returned Object.assign(createdPost, { attachments }): the
\* awaited transaction commits and answers it, or the commit fails and the
\* transaction rejects
CommitAndReturn(c) ==
    /\ pc[c] = "commit"
    /\ \/ /\ LET t == Commit([db |-> db, tx |-> tx[c]])
             IN /\ db' = t.db
                /\ tx' = [tx EXCEPT ![c] = t.tx]
          /\ result' = [result EXCEPT ![c] =
                           [ code |-> "ok", issues |-> <<>>,
                             data |-> [kind |-> "post", post |-> frame[c].createdPost,
                                       attachments |-> frame[c].allAttachments] ]]
          /\ pc' = [pc EXCEPT ![c] = "done"]
       \/ Throw(c, [code |-> "database_error", issues |-> <<>>])
    /\ wrote' = [wrote EXCEPT ![c] = @ \/ db' # db]
    /\ UNCHANGED << world, req, frame, log, objects, nextUlid, nextUuid, resolverVars >>

Next ==
    \/ \E c \in Calls : CreatePostCall(c)
    \/ \E c \in Calls : Parsed(c)
    \/ \E c \in Calls : LookupsAnswered(c)
    \/ \E c \in Calls : InsertPost(c)
    \/ \E c \in Calls : PutObject(c)
    \/ \E c \in Calls : InsertAttachments(c)
    \/ \E c \in Calls : CommitAndReturn(c)

Spec == Init /\ [][Next]_vars

\* ------------------------------------------------------------------ recaptcha
\* the data argument of recaptcha
RecaptchaInputs == [ recaptchaToken : { "", "03AGdBq2" } ]

\* ctx.envConfig.RECAPTCHA_SECRET_KEY: not configured, or a key
RecaptchaSecretKeys == { "", "6LeIxAcT" }

\* what the awaited fetch does: it rejects, or answers a status that is not
\* OK, or an OK one
FetchOutcomes == { "rejects", "not_ok", "ok" }

\* what the awaited response.json() does: it rejects, or answers a body that
\* says success or not
BodyOutcomes == { "unreadable", "success_true", "success_false" }

\* mutationRecaptchaInputSchema: recaptchaToken is at least one character long
mutationRecaptchaInputSchema(data) ==
    IF data.recaptchaToken = ""
    THEN << [path |-> <<"data", "recaptchaToken">>, message |-> "Recaptcha token is required"] >>
    ELSE <<>>

\* the error thrown when verifyRecaptchaToken answers false
InvalidToken ==
    TalawaGraphQLError("invalid_arguments",
        << [argumentPath |-> <<"data", "recaptchaToken">>,
            message |-> "Invalid reCAPTCHA token."] >>)

\* the catch block of the resolver: a TalawaGraphQLError is thrown on as it
\* is, anything else is logged and thrown as unexpected
ResolverCatch(r, error) ==
    IF error.talawa
    THEN [r EXCEPT !.result = Thrown(error.e), !.pc = "done"]
    ELSE [r EXCEPT !.log = Append(@, [sink |-> "ctx.log.error",
                              message |-> "Unexpected error during reCAPTCHA verification:"]),
                   !.result = Thrown(TalawaGraphQLError("unexpected", <<>>)),
                   !.pc = "done"]

\* verifyRecaptchaToken answered isValid to the resolver
Verified(r, isValid) ==
    IF ~isValid
    THEN ResolverCatch(r, [talawa |-> TRUE, e |-> InvalidToken])
    ELSE [r EXCEPT !.result = [code |-> "ok", issues |-> <<>>,
                               data |-> [kind |-> "boolean", value |-> TRUE]],
                   !.pc = "done"]

\* the catch block of verifyRecaptchaToken: the error is written to the
\* console and false is answered
VerificationCaught(r) ==
    Verified([r EXCEPT !.log = Append(@, [sink |-> "console.error",
                                          message |-> "reCAPTCHA verification error:"])],
             FALSE)

\* the resolver is called: the arguments are parsed, the secret key is read,
\* and verifyRecaptchaToken sends the request and awaits the fetch
RecaptchaCall ==
    /\ recaptcha.pc = "idle"
    /\ \E data \in RecaptchaInputs, recaptchaSecretKey \in RecaptchaSecretKeys :
          LET issues == mutationRecaptchaInputSchema(data)
              r == [recaptcha EXCEPT !.data = data, !.secretKey = recaptchaSecretKey]
          IN recaptcha' =
                 IF issues # <<>>
                 THEN [r EXCEPT !.result = Thrown(TalawaGraphQLError("invalid_arguments",
                                               MapIssues(issues))),
                                !.pc = "done"]
                 ELSE IF recaptchaSecretKey = ""
                 THEN [r EXCEPT !.result = Thrown(TalawaGraphQLError("forbidden_action", <<>>)),
                                !.pc = "done"]
                 ELSE [r EXCEPT !.pc = "fetch"]
    /\ UNCHANGED << createPostVars, attachment >>

\* the fetch answers: a rejection or a status that is not OK is caught, an OK
\* response has its body read and awaited
FetchAnswered ==
    /\ recaptcha.pc = "fetch"
    /\ \E outcome \in FetchOutcomes :
          LET r == [recaptcha EXCEPT !.service = outcome]
          IN recaptcha' = IF outcome = "ok" THEN [r EXCEPT !.pc = "json"]
                          ELSE VerificationCaught(r)
    /\ UNCHANGED << createPostVars, attachment >>

\* response.json() answers: a rejection is caught, a body is answered as
\* data.success === true
BodyRead ==
    /\ recaptcha.pc = "json"
    /\ \E outcome \in BodyOutcomes :
          LET r == [recaptcha EXCEPT !.service = outcome]
          IN recaptcha' = IF outcome = "unreadable" THEN VerificationCaught(r)
                          ELSE Verified(r, outcome = "success_true")
    /\ UNCHANGED << createPostVars, attachment >>

\* ------------------------------------------------------------ Post.attachmentURL
\* ctx.envConfig.API_BASE_URL as configured, and the origin the URL parser
\* reads from it
BaseURLs ==
    { [href |-> "http://127.0.0.1:4000", origin |-> "http://127.0.0.1:4000"],
      [href |-> "https://api.example.org/", origin |-> "https://api.example.org"] }

\* new URL(path, base).toString() for a path that starts with "/": the path
\* replaces whatever path the base has
NewURL(path, base) == base.origin \o path

\* MIME types of the attachments a post can hold
AttachmentMimeTypes == { Mime("image", "png"), Mime("video", "mp4") }

\* the attachments a parent post is loaded with
ParentAttachments ==
    { [mimeType |-> m, name |-> n] : m \in AttachmentMimeTypes, n \in { ulid(0), ulid(1) } }

\* parent posts: without attachments loaded, or with a list of them
Parents ==
    { [attachments |-> [kind |-> "undefined", items |-> <<>>]] }
    \cup { [attachments |-> [kind |-> "list", items |-> s]] :
             s \in SeqsUpTo(ParentAttachments, MaxImages) }

\* Array.prototype.find: the index of the first attachment whose MIME type
\* starts with "image/", 0 when there is none
RECURSIVE FindImage(_, _)
FindImage(attachments, from) ==
    IF from > Len(attachments) THEN 0
    ELSE IF StartsWithImage(attachments[from].mimeType) THEN from
         ELSE FindImage(attachments, from + 1)

NullData == [kind |-> "null"]

\* the resolver answering from the first attachment, image or not
attachmentURLOfFirst(parent, API_BASE_URL) ==
    IF parent.attachments.kind = "undefined" \/ Len(parent.attachments.items) = 0
    THEN NullData
    ELSE IF parent.attachments.items[1].name = "" THEN NullData
         ELSE [ kind |-> "string",
                value |-> NewURL("/objects/" \o parent.attachments.items[1].name, API_BASE_URL) ]

\* the attachmentURL resolver
attachmentURL(parent, API_BASE_URL) ==
    IF parent.attachments.kind = "undefined" \/ Len(parent.attachments.items) = 0
    THEN NullData
    ELSE LET k == FindImage(parent.attachments.items, 1)
         IN IF k = 0 THEN NullData
            ELSE IF parent.attachments.items[k].name = "" THEN NullData
            ELSE [ kind |-> "string",
                   value |-> NewURL("/objects/" \o parent.attachments.items[k].name, API_BASE_URL) ]

\* the attachmentURL field of a post is asked for, at any moment of a
\* recaptcha call; the resolver awaits nothing
AttachmentURL ==
    /\ \E parent \in Parents, API_BASE_URL \in BaseURLs :
          attachment' = [ req |-> [op |-> "attachmentURL", parent |-> parent,
                                   baseURL |-> API_BASE_URL],
                          data |-> attachmentURL(parent, API_BASE_URL) ]
    /\ UNCHANGED << createPostVars, recaptcha >>

NextResolvers ==
    \/ RecaptchaCall
    \/ FetchAnswered
    \/ BodyRead
    \/ AttachmentURL

SpecResolvers == Init /\ [][NextResolvers]_vars

\* ================================================================== claims
\* createPost call c has been made
Called(c) == req[c].op = "createPost"

\* createPost call c has been answered
Answered(c) == pc[c] = "done" /\ req[c].op = "createPost"

\* call c stands inside its transaction
InTransaction(c) == pc[c] \in { "insertPost", "putObject", "insertAttachments", "commit" }

\* the paths of the field constraints the input violates
ViolatedFieldPaths(input) ==
    { path \in { <<"input", "caption">>, <<"input", "organizationId">> } :
        \/ path[2] = "caption" /\ input.caption = ""
        \/ path[2] = "organizationId" /\ input.organizationId = "undefined" }

\* the positions, counted from 0, of the uploads with a disallowed MIME type
DisallowedImageIndexes(input) ==
    IF input.images.kind # "list" THEN {}
    ELSE { i - 1 : i \in { j \in 1..Len(input.images.items) :
                             /\ input.images.items[j].settles = "upload"
                             /\ input.images.items[j].mimetype \notin imageMimeTypeEnum } }

AllowedImageIndexes(input) ==
    IF input.images.kind # "list" THEN {}
    ELSE { i - 1 : i \in { j \in 1..Len(input.images.items) :
                             /\ input.images.items[j].settles = "upload"
                             /\ input.images.items[j].mimetype \in imageMimeTypeEnum } }

\* an element of the images argument rejects
UploadRejects(input) == PromiseAllRejects(input.images)

\* the input misses a required field or violates a stated constraint
ViolatesConstraint(input) ==
    ViolatedFieldPaths(input) # {} \/ DisallowedImageIndexes(input) # {}

\* the input passes the parse
PassesValidation(input) == ~ViolatesConstraint(input) /\ ~UploadRejects(input)

ReportedPaths(c) == { result[c].issues[k].argumentPath : k \in 1..Len(result[c].issues) }

\* the caller of call c passes every authentication and authorization check
\* for its input
AuthorizedFor(c) ==
    /\ req[c].client.isAuthenticated
    /\ world.currentUser # "undefined"
    /\ world.existingOrganization = "found"
    /\ \/ world.currentUser = "administrator"
       \/ world.membership = "administrator"
       \/ world.membership = "regular" /\ req[c].args.input.isPinned = "undefined"

\* call c wrote nothing: no row in the database or in its transaction, no object
WroteNothing(c) == tx[c] = EmptyTx /\ ~wrote[c]

\* ------------------------------------------------------------------------ C1
\* C1: a createPost call of an unauthenticated caller, whatever its input and
\* whatever another call is doing, is answered in the step it is made with
\* unauthenticated, and it writes no post row, no attachment row and no object.
C1_UnauthenticatedRejected ==
    \A c \in Calls :
        (Called(c) /\ ~req[c].client.isAuthenticated)
            => /\ pc[c] = "done"
               /\ result[c].code = "unauthenticated"
               /\ frame[c] = NoFrame
               /\ WroteNothing(c)

\* an unauthenticated call with an invalid input and two images is answered
\* while the other call stands inside its transaction
C1_Witness ==
    \E c \in Calls, d \in Calls :
        /\ Answered(c)
        /\ ~req[c].client.isAuthenticated
        /\ ViolatesConstraint(req[c].args.input)
        /\ req[c].args.input.images.kind = "list"
        /\ Len(req[c].args.input.images.items) = 2
        /\ result[c].code = "unauthenticated"
        /\ InTransaction(d)

\* ------------------------------------------------------------------------ C2
\* C2, as stated: every createPost input that violates a constraint is
\* answered with invalid_arguments listing every violation (each disallowed
\* image with its index), and nothing is written.
C2_AsStated ==
    \A c \in Calls :
        (Answered(c) /\ ViolatesConstraint(req[c].args.input))
            => /\ result[c].code = "invalid_arguments"
               /\ ReportedPaths(c) = ViolatedFieldPaths(req[c].args.input)
                      \cup { <<"input", "images", i>> :
                               i \in DisallowedImageIndexes(req[c].args.input) }
               /\ WroteNothing(c)

\* C2, amended: for an authenticated caller, a createPost input that violates
\* a constraint never gets past the parse and nothing is written; its answer
\* is invalid_arguments listing every violated field constraint, or, when the
\* fields are in order, the error of the upload when an element of images
\* rejects, and otherwise invalid_arguments listing every disallowed image
\* with its index in images.
C2_InvalidArgumentsListed ==
    \A c \in Calls :
        (Called(c) /\ req[c].client.isAuthenticated /\ ViolatesConstraint(req[c].args.input))
            => /\ pc[c] \in { "safeParse", "done" }
               /\ WroteNothing(c)
               /\ pc[c] = "done" =>
                     IF ViolatedFieldPaths(req[c].args.input) # {}
                     THEN /\ result[c].code = "invalid_arguments"
                          /\ ReportedPaths(c) = ViolatedFieldPaths(req[c].args.input)
                          /\ Len(result[c].issues) = Cardinality(ReportedPaths(c))
                     ELSE IF UploadRejects(req[c].args.input)
                     THEN result[c].code = "upload_error"
                     ELSE /\ result[c].code = "invalid_arguments"
                          /\ ReportedPaths(c) =
                                 { <<"input", "images", i>> :
                                     i \in DisallowedImageIndexes(req[c].args.input) }
                          /\ Len(result[c].issues) = Cardinality(ReportedPaths(c))

\* two disallowed uploads are listed, and so is a disallowed upload behind a
\* null element, at its index in images
C2_Witness ==
    \E c \in Calls :
        /\ Answered(c)
        /\ req[c].client.isAuthenticated
        /\ ViolatedFieldPaths(req[c].args.input) = {}
        /\ DisallowedImageIndexes(req[c].args.input) = { 0, 1 }
        /\ result[c].code = "invalid_arguments"
        /\ Len(result[c].issues) = 2
        /\ \E d \in Calls :
              /\ Answered(d)
              /\ req[d].args.input.images.kind = "list"
              /\ Len(req[d].args.input.images.items) = 2
              /\ req[d].args.input.images.items[1].settles = "null"
              /\ ReportedPaths(d) = { <<"input", "images", 1>> }

\* ------------------------------------------------------------------------ C3
\* the input is in order but for its images: one allowed, one disallowed,
\* and no element that rejects
OneAllowedOneDisallowed(input) ==
    /\ ViolatedFieldPaths(input) = {}
    /\ ~UploadRejects(input)
    /\ Cardinality(AllowedImageIndexes(input)) = 1
    /\ Cardinality(DisallowedImageIndexes(input)) = 1

\* C3, as stated: an authorized caller's input with one disallowed and one
\* allowed image succeeds, and the returned attachments are exactly the
\* allowed image.
C3_AsStated ==
    \A c \in Calls :
        (Answered(c) /\ AuthorizedFor(c) /\ OneAllowedOneDisallowed(req[c].args.input))
            => /\ result[c].code = "ok"
               /\ Len(result[c].data.attachments) = 1
               /\ result[c].data.attachments[1].mimeType \in imageMimeTypeEnum

\* C3, amended: an authorized caller's input with one disallowed and one
\* allowed image never gets past the parse and is answered with
\* invalid_arguments; the error names the disallowed image by its index and
\* not the allowed one; no post, no attachment and no object is created.
C3_MixedImagesRejected ==
    \A c \in Calls :
        (Called(c) /\ AuthorizedFor(c) /\ OneAllowedOneDisallowed(req[c].args.input))
            => /\ pc[c] \in { "safeParse", "done" }
               /\ WroteNothing(c)
               /\ pc[c] = "done" =>
                     /\ result[c].code = "invalid_arguments"
                     /\ ReportedPaths(c) =
                            { <<"input", "images", i>> :
                                i \in DisallowedImageIndexes(req[c].args.input) }

\* the mixed input is rejected while the other call, of the same authorized
\* caller, has committed its post
C3_Witness ==
    \E c \in Calls, d \in Calls :
        /\ Answered(c)
        /\ AuthorizedFor(c)
        /\ OneAllowedOneDisallowed(req[c].args.input)
        /\ DisallowedImageIndexes(req[c].args.input) = { 1 }
        /\ result[c].code = "invalid_arguments"
        /\ Answered(d)
        /\ result[d].code = "ok"

\* ------------------------------------------------------------------------ C4
\* an authenticated caller with an account, no global administrator role and
\* no membership in the organization, which exists
NonMember(c) ==
    /\ req[c].client.isAuthenticated
    /\ world.currentUser \notin { "undefined", "administrator" }
    /\ world.existingOrganization = "found"
    /\ world.membership = "undefined"

\* C4, as stated: every call of such a caller that the database answers is
\* answered with unauthorized_action_on_arguments_associated_resources and
\* writes nothing.
C4_AsStated ==
    \A c \in Calls :
        (Answered(c) /\ NonMember(c) /\ frame[c].lookups # "rejected")
            => /\ result[c].code = "unauthorized_action_on_arguments_associated_resources"
               /\ WroteNothing(c)

\* C4, amended: a call of such a caller whose arguments pass validation never
\* reaches the transaction and writes nothing, and once the lookups are
\* answered it is answered with
\* unauthorized_action_on_arguments_associated_resources, also when the input
\* sets isPinned; a lookup that rejects is answered with the database's error.
C4_NonMemberRejected ==
    \A c \in Calls :
        (Called(c) /\ NonMember(c) /\ PassesValidation(req[c].args.input))
            => /\ pc[c] \in { "safeParse", "lookups", "done" }
               /\ WroteNothing(c)
               /\ frame[c].lookups = "answered" =>
                     /\ pc[c] = "done"
                     /\ result[c].code = "unauthorized_action_on_arguments_associated_resources"
                     /\ ReportedPaths(c) = { <<"input", "organizationId">> }
               /\ frame[c].lookups = "rejected" =>
                     /\ pc[c] = "done"
                     /\ result[c].code = "database_error"

C4_Witness ==
    \E c \in Calls :
        /\ Answered(c)
        /\ NonMember(c)
        /\ PassesValidation(req[c].args.input)
        /\ req[c].args.input.isPinned = "true"
        /\ frame[c].lookups = "answered"
        /\ result[c].code = "unauthorized_action_on_arguments_associated_resources"

\* ------------------------------------------------------------------------ C5
\* an authenticated caller with an account and a membership in the
\* organization, neither role being administrator
OrdinaryMember(c) ==
    /\ req[c].client.isAuthenticated
    /\ world.currentUser \notin { "undefined", "administrator" }
    /\ world.existingOrganization = "found"
    /\ world.membership \notin { "undefined", "administrator" }

AuthorizationCodes ==
    { "unauthorized_action_on_arguments_associated_resources", "unauthorized_arguments" }

\* a global administrator is never turned away by the role checks
GlobalAdministratorPasses ==
    \A c \in Calls :
        (Answered(c) /\ req[c].client.isAuthenticated /\ world.currentUser = "administrator")
            => result[c].code \notin AuthorizationCodes

\* C5, as stated: every input of an ordinary member that sets isPinned, to
\* true or to false, is answered, when the database answers, with
\* unauthorized_arguments naming ["input","isPinned"] and writes nothing; a
\* global administrator is never turned away by the membership or field-level
\* checks.
C5_AsStated ==
    /\ \A c \in Calls :
          (Answered(c) /\ OrdinaryMember(c) /\ req[c].args.input.isPinned # "undefined"
                       /\ frame[c].lookups # "rejected")
              => /\ result[c].code = "unauthorized_arguments"
                 /\ ReportedPaths(c) = { <<"input", "isPinned">> }
                 /\ WroteNothing(c)
    /\ GlobalAdministratorPasses

\* C5, amended: an input of an ordinary member that passes validation and
\* sets isPinned, to true or to false, never reaches the transaction and
\* writes nothing, and once the lookups are answered it is answered with
\* unauthorized_arguments naming ["input","isPinned"]; a lookup that rejects
\* is answered with the database's error; a global administrator is never
\* turned away by the membership or field-level checks, member or not.
C5_RestrictedFieldRejected ==
    /\ \A c \in Calls :
          (Called(c) /\ OrdinaryMember(c) /\ req[c].args.input.isPinned # "undefined"
                     /\ PassesValidation(req[c].args.input))
              => /\ pc[c] \in { "safeParse", "lookups", "done" }
                 /\ WroteNothing(c)
                 /\ frame[c].lookups = "answered" =>
                       /\ pc[c] = "done"
                       /\ result[c].code = "unauthorized_arguments"
                       /\ ReportedPaths(c) = { <<"input", "isPinned">> }
                 /\ frame[c].lookups = "rejected" =>
                       /\ pc[c] = "done"
                       /\ result[c].code = "database_error"
    /\ GlobalAdministratorPasses

C5_Witness ==
    \E c \in Calls :
        /\ Answered(c)
        /\ OrdinaryMember(c)
        /\ PassesValidation(req[c].args.input)
        /\ req[c].args.input.isPinned = "false"
        /\ frame[c].lookups = "answered"
        /\ result[c].code = "unauthorized_arguments"

\* ------------------------------------------------------------------------ C6
\* the committed attachment rows of a post
AttachmentsOf(postId) == SelectSeq(db.attachments, LAMBDA a : a.postId = postId)

\* the validated images of call c
RequestImages(c) ==
    IF req[c].args.input.images.kind = "list"
    THEN ValidatedImages(req[c].args.input.images.items)
    ELSE <<>>

\* C6, as stated: after a call has finished in any way, the database holds
\* for its post either the post row with one attachment row for every
\* validated image of the input, or neither the post row nor any attachment
\* row of it; no attachment row is without its post.
C6_AsStated ==
    /\ \A k \in 1..Len(db.attachments) :
          \E p \in db.posts : p.id = db.attachments[k].postId
    /\ \A c \in Calls :
          (Answered(c) /\ frame[c].createdPost # NoPost)
              => LET rows == AttachmentsOf(frame[c].createdPost.id)
                 IN IF frame[c].createdPost \in db.posts
                    THEN Len(rows) = Len(RequestImages(c))
                    ELSE rows = <<>>

\* ------------------------------------------------------------------------ C7
\* C7: the name of every attachment row, committed, written in an open
\* transaction or prepared for the insert, is the name of an object the
\* bucket holds.
C7_NoDanglingObjectReference ==
    /\ \A k \in 1..Len(db.attachments) : db.attachments[k].name \in objects
    /\ \A c \in Calls :
          /\ \A k \in 1..Len(tx[c].attachments) : tx[c].attachments[k].name \in objects
          /\ \A k \in 1..Len(frame[c].imageAttachments) :
                frame[c].imageAttachments[k].name \in objects

\* a rollback left an uploaded object that no row names, next to a committed
\* attachment row of the other call
C7_Witness ==
    \E c \in Calls :
        /\ Answered(c)
        /\ result[c].code \in { "object_storage_error", "database_error" }
        /\ Len(db.attachments) > 0
        /\ \E o \in objects : \A k \in 1..Len(db.attachments) : db.attachments[k].name # o

\* ------------------------------------------------------------------------ C8
\* C8, as stated: a failure of the verification service (the fetch rejecting,
\* a status that is not OK, an unreadable body) is logged and answered with
\* unexpected.
C8_AsStated ==
    (recaptcha.pc = "done" /\ recaptcha.service \in { "rejects", "not_ok", "unreadable" })
        => /\ recaptcha.result.code = "unexpected"
           /\ recaptcha.log # <<>>

\* ------------------------------------------------------------------------ C9
\* the attachments the parent post was loaded with
ParentItems ==
    IF attachment.req.parent.attachments.kind = "list"
    THEN attachment.req.parent.attachments.items ELSE <<>>

ImagePositions == { k \in 1..Len(ParentItems) : ParentItems[k].mimeType.type = "image" }

\* C9: attachmentURL is null exactly when the post has no image attachment;
\* otherwise it is the base URL's origin, then /objects/, then the stored
\* name of the first image attachment in insertion order.
C9_FirstImageURL ==
    attachment.req.op = "attachmentURL"
        => IF ImagePositions = {}
           THEN attachment.data = NullData
           ELSE LET first == CHOOSE k \in ImagePositions : \A j \in ImagePositions : k <= j
                IN attachment.data =
                       [ kind |-> "string",
                         value |-> attachment.req.baseURL.origin \o "/objects/"
                                       \o ParentItems[first].name ]

\* the field is resolved, a video before an image, while a recaptcha call
\* awaits its fetch
C9_Witness ==
    /\ attachment.req.op = "attachmentURL"
    /\ Len(ParentItems) = 2
    /\ ParentItems[1].mimeType.type = "video"
    /\ ParentItems[2].mimeType.type = "image"
    /\ attachment.data.kind = "string"
    /\ attachment.data.value = "https://api.example.org/objects/" \o ParentItems[2].name
    /\ recaptcha.pc = "fetch"

\* ----------------------------------------------------------------------- C10
\* C10, as stated: an authenticated caller whose id resolves to no account
\* gets, for every input the database answers the lookups of, the answer an
\* unauthenticated caller gets for it: unauthenticated.
C10_AsStated ==
    \A c \in Calls :
        (Answered(c) /\ req[c].client.isAuthenticated /\ world.currentUser = "undefined"
                     /\ frame[c].lookups # "rejected")
            => /\ result[c].code = "unauthenticated"
               /\ result[c] = Thrown(AuthenticationCheck([isAuthenticated |-> FALSE]))

====
